---- MODULE Spec2Model ----
(***************************************************************************)
(* LDAP directory synchronisation and identity bridge of api/services/     *)
(* ldap_service.py, driven by the Celery tasks of api/tasks/               *)
(* ldap_sync_task.py.  The durable tables are ldap_configs, ldap_users,    *)
(* accounts and tenant_account_joins; every worker owns one db.session     *)
(* whose uncommitted inserts and attribute changes become durable only at  *)
(* db.session.commit().                                                    *)
(***************************************************************************)
EXTENDS Integers, Sequences, FiniteSets, TLC

(***************************************************************************)
(* Bounds                                                                  *)
(***************************************************************************)
\* number of tasks and requests started in one behaviour, per specification
MaxOps == 3
MaxOpsAuth == 3
MaxOpsBulk == 2
MaxOpsConc == 2
MaxOpsHeal == 5
MaxOpsConfig == 4
MaxOpsCross == 3
MaxOpsLogin == 4

Tenants == {"A", "B"}
Workers == {"w1", "w2"}

\* a NULL column (account_id, last_sync_at) and the id of no row
NoId == 0

(***************************************************************************)
(* Directory entries as the LDAP server returns them.  A missing or empty  *)
(* attribute reads as the empty string.                                    *)
(***************************************************************************)
Entry(uid, email, name, dn) == [uid |-> uid, email |-> email, name |-> name, dn |-> dn]

E1 == Entry("u1", "a@x", "Ann", "cn=ann")
E1b == Entry("u1", "b@x", "Bea", "cn=bea")
E2 == Entry("u2", "b@x", "Bob", "cn=bob")
ENoMail == Entry("u2", "", "Bob", "cn=bob")
ENoUid == Entry("", "a@x", "Ann", "cn=ann")

\* the columns ldap_uid, email and name are String(255)
ColumnSize == 255

\* stands for a display name of more than ColumnSize characters
LongName == "a cn that is longer than the name column"

Chars(v) == IF v = LongName THEN ColumnSize + 1 ELSE Len(v)

ELong == Entry("u2", "b@x", LongName, "cn=bob")

\* the search results a directory may answer with
Directories ==
    { <<>>, <<E1>>, <<E2>>, <<E1, E2>>, <<E1b>>, <<E1, E1b>>, <<ENoMail, E1>>, <<ENoUid>> }

\* the smaller choice used with two concurrent workers
DirectoriesConc == { <<E1>>, <<E1, E2>> }

Emails == {"a@x", "b@x"}
Passwords == {"good", "bad"}

(***************************************************************************)
(* State                                                                   *)
(***************************************************************************)
VARIABLES
    ldap_configs,   \* table ldap_configs (durable)
    ldap_users,     \* table ldap_users (durable)
    accounts,       \* table accounts (durable)
    joins,          \* table tenant_account_joins (durable)
    session,        \* per worker: db.session, its uncommitted work
    proc,           \* per worker: the running task or request and its locals
    now,            \* the clock read by naive_utc_now()
    last,           \* the last finished service call (history)
    prev            \* the finished service call before it (history)

vars == <<ldap_configs, ldap_users, accounts, joins, session, proc, now, last, prev>>

ZeroStats == [total |-> 0, created |-> 0, updated |-> 0, disabled |-> 0]

EmptySession ==
    [new_users |-> {}, dirty_users |-> <<>>, new_configs |-> {}, dirty_configs |-> <<>>,
     new_accounts |-> {}, new_joins |-> {}]

Snapshot ==
    [users |-> ldap_users, configs |-> ldap_configs, accounts |-> accounts, joins |-> joins]

NoSnapshot == [users |-> {}, configs |-> {}, accounts |-> {}, joins |-> {}]

Idle ==
    [pc |-> "idle", task |-> "none", queue |-> <<>>, total_synced |-> 0,
     total_errors |-> 0, failed |-> {}, synced |-> {}, task_before |-> NoSnapshot,
     tenant |-> "", config_id |-> NoId, fetch |-> <<>>, ldap_users |-> <<>>,
     idx |-> 0, todo |-> {}, stats |-> ZeroStats, before |-> NoSnapshot,
     email |-> "", password |-> "", user_id |-> NoId, account_id |-> NoId,
     conn |-> 0, opened |-> 0, bind |-> ""]

NoCall ==
    [op |-> "none", worker |-> "", task |-> "none", tenant |-> "", fetch |-> <<>>,
     email |-> "", password |-> "", user_id |-> NoId, enabled |-> FALSE,
     ok |-> FALSE, error |-> "", phase |-> "", stats |-> ZeroStats, account_id |-> NoId,
     total_synced |-> 0, total_errors |-> 0, failed |-> {}, synced |-> {},
     conn |-> 0, opened |-> 0, bind |-> "", config_data |-> <<>>,
     before |-> NoSnapshot, after |-> NoSnapshot]

(***************************************************************************)
(* db.session: the rows a worker's queries see are the durable rows with   *)
(* the session's own attribute changes applied, plus its pending inserts   *)
(* (queries autoflush).                                                    *)
(***************************************************************************)
Patch(r, d) == [f \in DOMAIN r |-> IF f \in DOMAIN d THEN d[f] ELSE r[f]]

PatchAll(rows, dirty) ==
    { IF r.id \in DOMAIN dirty THEN Patch(r, dirty[r.id]) ELSE r : r \in rows }

UsersView(s) == PatchAll(ldap_users, s.dirty_users) \cup s.new_users

ConfigsView(s) == PatchAll(ldap_configs, s.dirty_configs) \cup s.new_configs

AccountsView(s) == accounts \cup s.new_accounts

\* setting attributes of a loaded ldap_users row
SetUserAttrs(s, id, changes) ==
    IF \E r \in s.new_users : r.id = id
    THEN [s EXCEPT !.new_users = { IF r.id = id THEN Patch(r, changes) ELSE r : r \in s.new_users }]
    ELSE [s EXCEPT !.dirty_users =
            (id :> (changes @@ (IF id \in DOMAIN s.dirty_users THEN s.dirty_users[id] ELSE <<>>)))
            @@ s.dirty_users]

SetConfigAttrs(s, id, changes) ==
    [s EXCEPT !.dirty_configs =
        (id :> (changes @@ (IF id \in DOMAIN s.dirty_configs THEN s.dirty_configs[id] ELSE <<>>)))
        @@ s.dirty_configs]

\* the unique constraint unique_tenant_ldap_user
UniqueTenantLdapUser(rows) ==
    \A r1, r2 \in rows :
        (r1.tenant_id = r2.tenant_id /\ r1.ldap_uid = r2.ldap_uid) => r1.id = r2.id

\* server default uuid_generate_v4(): an id no row has, durable or pending
UsedUserIds ==
    {r.id : r \in ldap_users} \cup UNION {{r.id : r \in session[w].new_users} : w \in Workers}

FreshId(used) == CHOOSE n \in 1..(Cardinality(used) + 1) : n \notin used /\ \A m \in 1..(n - 1) : m \in used

UsedAccountIds ==
    {a.id : a \in accounts} \cup UNION {{a.id : a \in session[w].new_accounts} : w \in Workers}
        \cup {r.account_id : r \in ldap_users} \cup {j.account_id : j \in joins}

(***************************************************************************)
(* LdapService.get_ldap_config                                             *)
(***************************************************************************)
\* slip: the config of any tenant is returned
get_ldap_config_any_tenant(s, tenant_id) ==
    {c \in ConfigsView(s) : c.enabled}

\* slip: a disabled config is returned too
get_ldap_config_any_status(s, tenant_id) ==
    {c \in ConfigsView(s) : c.tenant_id = tenant_id}

get_ldap_config(s, tenant_id) ==
    {c \in ConfigsView(s) : c.tenant_id = tenant_id /\ c.enabled}

\* slip: the lookup of a mirrored user by uid forgets the tenant
LdapUserByUidAnyTenant(s, tenant_id, ldap_uid) ==
    {r \in UsersView(s) : r.ldap_uid = ldap_uid}

\* lines 164-167 and 198-201: the mirrored user of a tenant with this uid
LdapUserByUid(s, tenant_id, ldap_uid) ==
    {r \in UsersView(s) : r.tenant_id = tenant_id /\ r.ldap_uid = ldap_uid}

\* slip: the lookup of a mirrored user by id forgets the tenant
LdapUserByIdAnyTenant(s, tenant_id, ldap_user_id) ==
    {r \in UsersView(s) : r.id = ldap_user_id}

\* lines 300-303: the mirrored user of a tenant with this id
LdapUserById(s, tenant_id, ldap_user_id) ==
    {r \in UsersView(s) : r.id = ldap_user_id /\ r.tenant_id = tenant_id}

\* slip: the login finds a mirrored user whatever its enabled flag
LdapUserByEmailAnyStatus(s, tenant_id, email) ==
    {r \in UsersView(s) : r.tenant_id = tenant_id /\ r.email = email}

\* lines 224-228: the enabled mirrored user of a tenant with this email
LdapUserByEmail(s, tenant_id, email) ==
    {r \in UsersView(s) : r.tenant_id = tenant_id /\ r.email = email /\ r.enabled}

(***************************************************************************)
(* LdapService.search_ldap_users: the entries are converted to user_data   *)
(* dictionaries; one without uid or without email is skipped.              *)
(***************************************************************************)
UserData(entry) == [uid |-> entry.uid, email |-> entry.email, name |-> entry.name, dn |-> entry.dn]

\* slip: a record without email is kept
ValidUserDataUidOnly(user_data) == user_data.uid # ""

\* line 127: the required fields
ValidUserData(user_data) == user_data.uid # "" /\ user_data.email # ""

RECURSIVE search_ldap_users(_)
search_ldap_users(entries) ==
    IF entries = <<>> THEN <<>>
    ELSE LET user_data == UserData(Head(entries))
             rest == search_ldap_users(Tail(entries))
         IN IF ValidUserData(user_data) THEN <<user_data>> \o rest ELSE rest

Uids(users) == {users[i].uid : i \in 1..Len(users)}

(***************************************************************************)
(* LdapService.sync_ldap_users, the body of the two loops                  *)
(***************************************************************************)
\* slip: a disabled row is refreshed but not re-enabled
UpdateExistingUserKeepDisabled(ldap_user, user_data, t) ==
    [email |-> user_data.email, name |-> user_data.name, ldap_dn |-> user_data.dn,
     last_sync_at |-> t, updated_at |-> t]

\* the attributes the first loop sets on an existing row
UpdateExistingUser(ldap_user, user_data, t) ==
    [email |-> user_data.email, name |-> user_data.name, ldap_dn |-> user_data.dn,
     last_sync_at |-> t, updated_at |-> t]
    @@ (IF ~ldap_user.enabled THEN [enabled |-> TRUE] ELSE <<>>)

\* slip: the new row takes enabled = false
NewLdapUserDisabled(id, tenant_id, user_data, t) ==
    [id |-> id, tenant_id |-> tenant_id, account_id |-> NoId, ldap_uid |-> user_data.uid,
     email |-> user_data.email, name |-> user_data.name, ldap_dn |-> user_data.dn,
     enabled |-> FALSE, last_sync_at |-> t, updated_at |-> t]

\* the row the first loop adds for an unknown uid
NewLdapUser(id, tenant_id, user_data, t) ==
    [id |-> id, tenant_id |-> tenant_id, account_id |-> NoId, ldap_uid |-> user_data.uid,
     email |-> user_data.email, name |-> user_data.name, ldap_dn |-> user_data.dn,
     enabled |-> TRUE, last_sync_at |-> t, updated_at |-> t]

\* slip: disabling a row also drops its account link
DisableUserClearLink(t) == [enabled |-> FALSE, updated_at |-> t, account_id |-> NoId]

\* the attributes the second loop sets on a row that is no longer fetched
DisableUser(t) == [enabled |-> FALSE, updated_at |-> t]

\* slip: total counts the distinct uids
InitStatsDistinct(users) == [ZeroStats EXCEPT !.total = Cardinality(Uids(users))]

\* lines 150-155: the stats before the loops
InitStats(users) == [ZeroStats EXCEPT !.total = Len(users)]

\* slip: no row is taken for absent
AbsentUidsNone(existing_uids, current_uids) == {}

\* line 197: the uids of the tenant's rows that were not fetched
AbsentUids(existing_uids, current_uids) == existing_uids \ current_uids

\* the attributes set on the config before the commit
TouchConfig(t) == [last_sync_at |-> t, updated_at |-> t]

(***************************************************************************)
(* Flushing a session sends its pending inserts and updates to the         *)
(* database, which rejects a duplicate (tenant_id, ldap_uid) and a value   *)
(* that does not fit its column.  Every query flushes first (autoflush),   *)
(* and so does db.session.commit(), which then makes the work durable.     *)
(***************************************************************************)
FitsColumns(r) ==
    Chars(r.ldap_uid) <= ColumnSize /\ Chars(r.email) <= ColumnSize /\ Chars(r.name) <= ColumnSize

FlushOk(s) ==
    /\ UniqueTenantLdapUser(UsersView(s))
    /\ \A r \in UsersView(s) : FitsColumns(r)

Commit(s) ==
    /\ ldap_users' = UsersView(s)
    /\ ldap_configs' = ConfigsView(s)
    /\ accounts' = AccountsView(s)
    /\ joins' = joins \cup s.new_joins

NoCommit == UNCHANGED <<ldap_users, ldap_configs, accounts, joins>>

SnapshotAfter ==
    [users |-> ldap_users', configs |-> ldap_configs', accounts |-> accounts', joins |-> joins']

Log(call) == last' = call /\ prev' = last

(***************************************************************************)
(* Initial state: both tenants have an enabled config that was never       *)
(* synced, the mirror is empty, one local account exists.                  *)
(***************************************************************************)
InitConfig(id, tenant_id) ==
    [id |-> id, tenant_id |-> tenant_id, enabled |-> TRUE, server_url |-> "ldap://x",
     last_sync_at |-> NoId, updated_at |-> NoId]

InitAccount == [id |-> 1, email |-> "b@x", name |-> "Local", status |-> "active"]

Init ==
    /\ ldap_configs = {InitConfig(1, "A"), InitConfig(2, "B")}
    /\ ldap_users = {}
    /\ accounts = {InitAccount}
    /\ joins = {}
    /\ session = [w \in Workers |-> EmptySession]
    /\ proc = [w \in Workers |-> Idle]
    /\ now = 1
    /\ last = NoCall
    /\ prev = NoCall

\* the state after the migration: no tenant has a config yet
InitNoConfig ==
    /\ ldap_configs = {}
    /\ ldap_users = {}
    /\ accounts = {InitAccount}
    /\ joins = {}
    /\ session = [w \in Workers |-> EmptySession]
    /\ proc = [w \in Workers |-> Idle]
    /\ now = 1
    /\ last = NoCall
    /\ prev = NoCall

(***************************************************************************)
(* LdapService.create_or_update_ldap_config, called by                     *)
(* LdapConfigResource.post with the JSON body as config_data.  The         *)
(* connection settings of a config are stood for by server_url.            *)
(***************************************************************************)
ConfigColumns == {"id", "tenant_id", "enabled", "server_url", "last_sync_at", "updated_at"}

\* the column defaults of ldap_configs; a NULL server_url is the empty string
ConfigDefaults(id, t) ==
    [id |-> id, enabled |-> FALSE, server_url |-> "", last_sync_at |-> NoId, updated_at |-> t]

\* lines 64-67: LdapConfig(tenant_id=tenant_id, **config_data)
NewLdapConfig(id, tenant_id, config_data, t) ==
    [k \in ConfigColumns |->
        IF k = "tenant_id" THEN tenant_id
        ELSE IF k \in DOMAIN config_data THEN config_data[k]
        ELSE ConfigDefaults(id, t)[k]]

\* lines 58-61: setattr for every key the config has, then updated_at
UpdateLdapConfig(config, config_data, t) ==
    [updated_at |-> t] @@ [k \in DOMAIN config_data \cap DOMAIN config |-> config_data[k]]

\* the constraints of ldap_configs: primary key, unique_tenant_ldap_config,
\* server_url NOT NULL
ConfigFlushOk(configs) ==
    /\ \A c1, c2 \in configs : (c1.id = c2.id \/ c1.tenant_id = c2.tenant_id) => c1 = c2
    /\ \A c \in configs : c.server_url # ""

ConfigCall(w, tenant_id, config_data, ok, error) ==
    [NoCall EXCEPT !.op = "config", !.worker = w, !.tenant = tenant_id,
                   !.config_data = config_data, !.ok = ok, !.error = error,
                   !.before = Snapshot, !.after = SnapshotAfter]

CreateOrUpdateLdapConfig(w, tenant_id, config_data, horizon) ==
    /\ proc[w].pc = "idle"
    /\ now <= horizon
    /\ now' = now + 1
    /\ UNCHANGED <<session, proc>>
    /\ LET found == {c \in ConfigsView(session[w]) : c.tenant_id = tenant_id}
           id == FreshId({c.id : c \in ldap_configs})
           s == IF found # {}
                THEN LET config == CHOOSE c \in found : TRUE
                     IN SetConfigAttrs(session[w], config.id,
                                       UpdateLdapConfig(config, config_data, now + 1))
                ELSE [session[w] EXCEPT !.new_configs =
                         @ \cup {NewLdapConfig(id, tenant_id, config_data, now + 1)}]
       IN IF found = {} /\ ~(DOMAIN config_data \subseteq ConfigColumns \ {"tenant_id"})
          THEN /\ NoCommit
               /\ Log(ConfigCall(w, tenant_id, config_data, FALSE, "TypeError"))
          ELSE IF ~ConfigFlushOk(ConfigsView(s))
          THEN /\ NoCommit
               /\ Log(ConfigCall(w, tenant_id, config_data, FALSE, "IntegrityError"))
          ELSE /\ Commit(s)
               /\ Log(ConfigCall(w, tenant_id, config_data, TRUE, ""))

(***************************************************************************)
(* How a call of sync_ldap_users hands control back to the task that made  *)
(* it.  sync_ldap_users_task counts the result or the error and goes on    *)
(* with the next config on the same session; the single tenant task        *)
(* returns or re-raises, which ends the task and its session.              *)
(***************************************************************************)
ClearSyncLocals(p) ==
    [p EXCEPT !.tenant = "", !.config_id = NoId, !.fetch = <<>>, !.ldap_users = <<>>,
              !.idx = 0, !.todo = {}, !.stats = ZeroStats, !.before = NoSnapshot,
              !.opened = 0]

\* lines 41-44 of the bulk task, lines 69-71 of the single tenant task
AfterSyncReturn(p, stats) ==
    IF p.task = "bulk"
    THEN [ClearSyncLocals(p) EXCEPT !.pc = "task_loop", !.total_synced = @ + stats.total,
                                    !.synced = @ \cup {p.tenant}]
    ELSE Idle

\* lines 46-49 of the bulk task, lines 73-75 of the single tenant task
AfterSyncRaise(p, phase) ==
    IF p.task = "bulk"
    THEN [ClearSyncLocals(p) EXCEPT !.pc = "task_loop", !.total_errors = @ + 1,
                                    !.failed = @ \cup {[tenant |-> p.tenant, phase |-> phase]}]
    ELSE Idle

\* the session after an exception left sync_ldap_users: nothing rolls it back
SessionAfterRaise(p, s) == IF p.task = "bulk" THEN s ELSE EmptySession

SyncCall(w, p, ok, phase, error, stats) ==
    [NoCall EXCEPT !.op = "sync", !.worker = w, !.task = p.task, !.tenant = p.tenant,
                   !.fetch = p.fetch, !.ok = ok, !.phase = phase, !.error = error, !.stats = stats,
                   !.conn = p.conn, !.opened = p.opened,
                   !.before = p.before, !.after = SnapshotAfter]

\* an exception leaves sync_ldap_users; p are the locals of the call then
SyncRaiseFrom(w, p, phase, error) ==
    /\ proc' = [proc EXCEPT ![w] = AfterSyncRaise(p, phase)]
    /\ session' = [session EXCEPT ![w] = SessionAfterRaise(p, session[w])]
    /\ NoCommit
    /\ UNCHANGED now
    /\ Log(SyncCall(w, p, FALSE, phase, error, ZeroStats))

SyncRaise(w, phase, error) == SyncRaiseFrom(w, proc[w], phase, error)

(***************************************************************************)
(* Tasks                                                                   *)
(***************************************************************************)
\* LdapSyncResource.post: sync_single_tenant_ldap_users_task.delay(tenant)
StartSingleTask(w, tenant_id, horizon) ==
    /\ proc[w].pc = "idle"
    /\ now <= horizon
    /\ now' = now + 1
    /\ proc' = [proc EXCEPT ![w] = [Idle EXCEPT !.pc = "sync_start", !.task = "single",
                                                !.tenant = tenant_id, !.before = Snapshot]]
    /\ UNCHANGED <<ldap_configs, ldap_users, accounts, joins, session, last, prev>>

\* the orders in which a query without ORDER BY may return a set of rows
Orders(S) == {q \in [1..Cardinality(S) -> S] : \A x \in S : \E i \in DOMAIN q : q[i] = x}

\* sync_ldap_users_task: load the enabled configs
StartBulkTask(w, horizon) ==
    /\ proc[w].pc = "idle"
    /\ now <= horizon
    /\ now' = now + 1
    /\ \E configs \in Orders({c.tenant_id : c \in {c \in ConfigsView(session[w]) : c.enabled}}) :
          proc' = [proc EXCEPT ![w] =
                     IF configs = <<>> THEN Idle
                     ELSE [Idle EXCEPT !.pc = "task_loop", !.task = "bulk", !.queue = configs,
                                       !.task_before = Snapshot]]
    /\ UNCHANGED <<ldap_configs, ldap_users, accounts, joins, session, last, prev>>

\* sync_ldap_users_task: the for loop takes the next config, or the task ends
TaskLoop(w) ==
    /\ proc[w].pc = "task_loop"
    /\ IF proc[w].queue = <<>>
       THEN /\ proc' = [proc EXCEPT ![w] = Idle]
            /\ session' = [session EXCEPT ![w] = EmptySession]
            /\ Log([NoCall EXCEPT !.op = "bulk", !.worker = w, !.task = "bulk", !.ok = TRUE,
                                  !.total_synced = proc[w].total_synced,
                                  !.total_errors = proc[w].total_errors,
                                  !.failed = proc[w].failed, !.synced = proc[w].synced,
                                  !.before = proc[w].task_before, !.after = Snapshot])
       ELSE /\ proc' = [proc EXCEPT ![w] = [@ EXCEPT !.pc = "sync_start",
                                                     !.tenant = Head(proc[w].queue),
                                                     !.queue = Tail(proc[w].queue),
                                                     !.before = Snapshot]]
            /\ UNCHANGED <<session, last, prev>>
    /\ NoCommit
    /\ UNCHANGED now

(***************************************************************************)
(* LdapService.sync_ldap_users                                             *)
(***************************************************************************)
\* lines 143-145
SyncGetConfig(w) ==
    /\ proc[w].pc = "sync_start"
    /\ FlushOk(session[w])
    /\ LET found == get_ldap_config(session[w], proc[w].tenant)
       IN IF found = {}
          THEN SyncRaise(w, "config", "LdapServiceError")
          ELSE /\ \E config \in found :
                    proc' = [proc EXCEPT ![w] = [@ EXCEPT !.pc = "search", !.config_id = config.id]]
               /\ UNCHANGED <<ldap_configs, ldap_users, accounts, joins, session, now, last, prev>>

\* slip: the connection is left open
UnbindForgotten(p) == p

\* line 138: conn.unbind() in the finally block
Unbind(p) == [p EXCEPT !.conn = 0]

\* the exception class a failed fetch raises: line 94 for the connection,
\* line 136 for the search and for the reading of the entries
SearchPhases == {"connect", "search", "entries"}

ErrorOf(phase) == IF phase = "connect" THEN "LdapConnectionError" ELSE "LdapServiceError"

\* line 99: _create_ldap_connection returns a bound connection
SyncConnect(w) ==
    /\ proc[w].pc = "search"
    /\ proc' = [proc EXCEPT ![w] = [@ EXCEPT !.pc = "searching", !.conn = @ + 1, !.opened = @ + 1]]
    /\ UNCHANGED <<ldap_configs, ldap_users, accounts, joins, session, now, last, prev>>

\* lines 101-138 and 150-160: the directory answers, the connection is
\* closed; stats and the two uid sets
SyncSearch(w, entries) ==
    /\ proc[w].pc = "searching"
    /\ FlushOk(session[w])
    /\ LET users == search_ldap_users(entries)
           existing_users == {r \in UsersView(session[w]) : r.tenant_id = proc[w].tenant}
           existing_uids == {r.ldap_uid : r \in existing_users}
           current_uids == Uids(users)
       IN proc' = [proc EXCEPT ![w] =
                     [Unbind(proc[w]) EXCEPT !.pc = "sync_loop", !.fetch = entries,
                               !.ldap_users = users,
                               !.idx = 1, !.todo = AbsentUids(existing_uids, current_uids),
                               !.stats = InitStats(users)]]
    /\ UNCHANGED <<ldap_configs, ldap_users, accounts, joins, session, now, last, prev>>

\* slip: the sync time of the config is written and committed before the
\* failed fetch is reported
SyncSearchFailTouched(w, phase) ==
    /\ proc[w].pc = (IF phase = "connect" THEN "search" ELSE "searching")
    /\ Commit(SetConfigAttrs(session[w], proc[w].config_id, TouchConfig(now)))
    /\ session' = [session EXCEPT ![w] = EmptySession]
    /\ proc' = [proc EXCEPT ![w] = AfterSyncRaise(Unbind(proc[w]), phase)]
    /\ UNCHANGED now
    /\ Log(SyncCall(w, Unbind(proc[w]), FALSE, phase, ErrorOf(phase), ZeroStats))

\* line 99 raises LdapConnectionError before there is a connection; lines
\* 134-138 raise LdapServiceError after closing it
SyncSearchFail(w, phase) ==
    /\ proc[w].pc = (IF phase = "connect" THEN "search" ELSE "searching")
    /\ SyncRaiseFrom(w, Unbind(proc[w]), phase, ErrorOf(phase))

\* lines 163-194: one iteration of the first loop
SyncRecord(w) ==
    /\ proc[w].pc = "sync_loop"
    /\ FlushOk(session[w])
    /\ proc[w].idx <= Len(proc[w].ldap_users)
    /\ LET p == proc[w]
           user_data == p.ldap_users[p.idx]
           found == LdapUserByUid(session[w], p.tenant, user_data.uid)
       IN IF found # {}
          THEN \E ldap_user \in found :
                 /\ session' = [session EXCEPT ![w] =
                        SetUserAttrs(@, ldap_user.id, UpdateExistingUser(ldap_user, user_data, now))]
                 /\ proc' = [proc EXCEPT ![w] = [@ EXCEPT !.idx = @ + 1, !.stats.updated = @ + 1]]
          ELSE /\ session' = [session EXCEPT ![w] =
                      [@ EXCEPT !.new_users = @ \cup
                          {NewLdapUser(FreshId(UsedUserIds), p.tenant, user_data, now)}]]
               /\ proc' = [proc EXCEPT ![w] = [@ EXCEPT !.idx = @ + 1, !.stats.created = @ + 1]]
    /\ UNCHANGED <<ldap_configs, ldap_users, accounts, joins, now, last, prev>>

\* slip: a row that is no longer fetched is deleted instead of disabled
SyncDisableDelete(w) ==
    /\ proc[w].pc = "sync_loop"
    /\ FlushOk(session[w])
    /\ proc[w].idx > Len(proc[w].ldap_users)
    /\ \E uid \in proc[w].todo :
         /\ ldap_users' = {r \in ldap_users : ~(r.tenant_id = proc[w].tenant /\ r.ldap_uid = uid)}
         /\ proc' = [proc EXCEPT ![w] = [@ EXCEPT !.todo = @ \ {uid}, !.stats.disabled = @ + 1]]
    /\ UNCHANGED <<ldap_configs, accounts, joins, session, now, last, prev>>

\* lines 197-205: one iteration of the second loop
SyncDisable(w) ==
    /\ proc[w].pc = "sync_loop"
    /\ FlushOk(session[w])
    /\ proc[w].idx > Len(proc[w].ldap_users)
    /\ \E uid \in proc[w].todo :
         LET p == proc[w]
             found == LdapUserByUid(session[w], p.tenant, uid)
         IN IF found = {}
            THEN /\ proc' = [proc EXCEPT ![w] = [@ EXCEPT !.todo = @ \ {uid}]]
                 /\ UNCHANGED session
            ELSE \E ldap_user \in found :
                   IF ldap_user.enabled
                   THEN /\ session' = [session EXCEPT ![w] =
                               SetUserAttrs(@, ldap_user.id, DisableUser(now))]
                        /\ proc' = [proc EXCEPT ![w] =
                               [@ EXCEPT !.todo = @ \ {uid}, !.stats.disabled = @ + 1]]
                   ELSE /\ proc' = [proc EXCEPT ![w] = [@ EXCEPT !.todo = @ \ {uid}]]
                        /\ UNCHANGED session
    /\ UNCHANGED <<ldap_configs, ldap_users, accounts, joins, now, last, prev>>

\* a query of one of the two loops raises for a reason other than a failed
\* flush (lines 164 and 198)
SyncLoopFail(w) ==
    /\ proc[w].pc = "sync_loop"
    /\ proc[w].idx <= Len(proc[w].ldap_users) \/ proc[w].todo # {}
    /\ SyncRaise(w, "loop", "Exception")

\* the flush before a query (lines 143, 158, 164, 198) or in the commit
\* (line 211) is rejected by the database; at line 158 the fetch has
\* returned and closed its connection
SyncFlushFail(w) ==
    /\ proc[w].pc \in {"sync_start", "searching", "sync_loop"}
    /\ ~FlushOk(session[w])
    /\ SyncRaiseFrom(w, Unbind(proc[w]), "flush", "DBAPIError")

\* lines 207-214: touch the config, commit, return the stats
SyncCommit(w) ==
    /\ proc[w].pc = "sync_loop"
    /\ proc[w].idx > Len(proc[w].ldap_users)
    /\ proc[w].todo = {}
    /\ FlushOk(session[w])
    /\ Commit(SetConfigAttrs(session[w], proc[w].config_id, TouchConfig(now)))
    /\ session' = [session EXCEPT ![w] = EmptySession]
    /\ proc' = [proc EXCEPT ![w] = AfterSyncReturn(proc[w], proc[w].stats)]
    /\ Log(SyncCall(w, proc[w], TRUE, "", "", proc[w].stats))
    /\ UNCHANGED now

(***************************************************************************)
(* sync_ldap_users as a function of the rows it reads: what one run on a   *)
(* session without other pending work makes of the ldap_users table, and   *)
(* the stats it returns.                                                   *)
(***************************************************************************)
RECURSIVE SyncLoop(_, _, _, _, _)
SyncLoop(rows, tenant_id, users, t, stats) ==
    IF users = <<>> THEN [rows |-> rows, stats |-> stats]
    ELSE LET user_data == Head(users)
             found == {r \in rows : r.tenant_id = tenant_id /\ r.ldap_uid = user_data.uid}
         IN IF found # {}
            THEN LET ldap_user == CHOOSE r \in found : TRUE
                 IN SyncLoop((rows \ {ldap_user})
                                \cup {Patch(ldap_user, UpdateExistingUser(ldap_user, user_data, t))},
                             tenant_id, Tail(users), t, [stats EXCEPT !.updated = @ + 1])
            ELSE SyncLoop(rows \cup {NewLdapUser(FreshId({r.id : r \in rows}), tenant_id, user_data, t)},
                          tenant_id, Tail(users), t, [stats EXCEPT !.created = @ + 1])

SyncAlone(rows, tenant_id, entries, t) ==
    LET users == search_ldap_users(entries)
        existing_uids == {r.ldap_uid : r \in {r \in rows : r.tenant_id = tenant_id}}
        gone == existing_uids \ Uids(users)
        looped == SyncLoop(rows, tenant_id, users, t, [ZeroStats EXCEPT !.total = Len(users)])
        hit == {r \in looped.rows : r.tenant_id = tenant_id /\ r.ldap_uid \in gone /\ r.enabled}
    IN [rows |-> (looped.rows \ hit) \cup {Patch(r, DisableUser(t)) : r \in hit},
        stats |-> [looped.stats EXCEPT !.disabled = Cardinality(hit)]]

(***************************************************************************)
(* LdapService.update_ldap_user_status                                     *)
(***************************************************************************)
\* slip: the toggle also drops the account link
SetStatusClearLink(enabled, t) == [enabled |-> enabled, updated_at |-> t, account_id |-> NoId]

\* the attributes the admin toggle sets
SetStatus(enabled, t) == [enabled |-> enabled, updated_at |-> t]

StatusCall(w, tenant_id, ldap_user_id, enabled, ok, error) ==
    [NoCall EXCEPT !.op = "status", !.worker = w, !.tenant = tenant_id, !.user_id = ldap_user_id,
                   !.enabled = enabled, !.ok = ok, !.error = error,
                   !.before = Snapshot, !.after = SnapshotAfter]

UpdateLdapUserStatus(w, tenant_id, ldap_user_id, enabled, horizon) ==
    /\ proc[w].pc = "idle"
    /\ now <= horizon
    /\ now' = now + 1
    /\ LET found == LdapUserById(session[w], tenant_id, ldap_user_id)
       IN IF found = {}
          THEN /\ NoCommit
               /\ Log(StatusCall(w, tenant_id, ldap_user_id, enabled, FALSE, "LdapUserNotFoundError"))
          ELSE /\ Commit(SetUserAttrs(session[w], ldap_user_id, SetStatus(enabled, now + 1)))
               /\ Log(StatusCall(w, tenant_id, ldap_user_id, enabled, TRUE, ""))
    /\ UNCHANGED <<session, proc>>

(***************************************************************************)
(* LdapService.authenticate_ldap_user and _get_or_create_local_account     *)
(***************************************************************************)
AuthCall(w, p, ok, error, account_id) ==
    [NoCall EXCEPT !.op = "auth", !.worker = w, !.tenant = p.tenant, !.email = p.email,
                   !.password = p.password, !.user_id = p.user_id, !.ok = ok, !.error = error,
                   !.account_id = account_id, !.bind = p.bind,
                   !.before = p.before, !.after = SnapshotAfter]

\* the directory accepts a bind as dn with this password
BindOk(dn, password) == password = "good"

\* lines 219-240: config, enabled mirrored user with this email, bind
Authenticate(w, tenant_id, email, password, horizon) ==
    /\ proc[w].pc = "idle"
    /\ now <= horizon
    /\ now' = now + 1
    /\ NoCommit
    /\ UNCHANGED session
    /\ LET p == [Idle EXCEPT !.tenant = tenant_id, !.email = email, !.password = password,
                             !.before = Snapshot]
           found == LdapUserByEmail(session[w], tenant_id, email)
       IN IF get_ldap_config(session[w], tenant_id) = {}
          THEN /\ Log(AuthCall(w, p, FALSE, "LdapServiceError", NoId))
               /\ UNCHANGED proc
          ELSE IF found = {}
          THEN /\ Log(AuthCall(w, p, FALSE, "LdapUserNotFoundError", NoId))
               /\ UNCHANGED proc
          ELSE \E ldap_user \in found :
                 IF BindOk(ldap_user.ldap_dn, password)
                 THEN /\ proc' = [proc EXCEPT ![w] =
                             [p EXCEPT !.pc = "auth_resolve", !.user_id = ldap_user.id,
                                       !.bind = ldap_user.ldap_dn]]
                      /\ UNCHANGED <<last, prev>>
                 ELSE /\ Log(AuthCall(w, [p EXCEPT !.user_id = ldap_user.id,
                                                   !.bind = ldap_user.ldap_dn], FALSE,
                                      "LdapAuthError", NoId))
                      /\ UNCHANGED proc

\* lines 265-270: the account provisioned for a mirrored user
NewAccount(id, ldap_user) ==
    [id |-> id, email |-> ldap_user.email, name |-> ldap_user.name, status |-> "active"]

\* slip: the membership is created with the owner role
NewTenantJoinOwner(tenant_id, account_id) ==
    [tenant_id |-> tenant_id, account_id |-> account_id, role |-> "owner"]

\* lines 279-283: its membership in the tenant
NewTenantJoin(tenant_id, account_id) ==
    [tenant_id |-> tenant_id, account_id |-> account_id, role |-> "normal"]

\* slip: the link is not written
LinkAccountForgotten(account_id, t) == [updated_at |-> t]

\* lines 259-260 and 275-276: the link
LinkAccount(account_id, t) == [account_id |-> account_id, updated_at |-> t]

\* slip: a set account_id is trusted, the account is not looked up
LinkedAccountTrusted(s, ldap_user) ==
    IF ldap_user.account_id = NoId THEN {}
    ELSE {[id |-> ldap_user.account_id, email |-> ldap_user.email, name |-> ldap_user.name,
           status |-> "active"]}

\* lines 249-253: the account the mirrored user is linked to, if it exists
LinkedAccount(s, ldap_user) ==
    {a \in AccountsView(s) : ldap_user.account_id # NoId /\ a.id = ldap_user.account_id}

\* lines 249-271: return the linked account, or link the account with the
\* same email, or add a new account to the session
AuthResolve(w) ==
    /\ proc[w].pc = "auth_resolve"
    /\ NoCommit
    /\ UNCHANGED now
    /\ LET p == proc[w]
           ldap_user == CHOOSE r \in UsersView(session[w]) : r.id = p.user_id
           linked == LinkedAccount(session[w], ldap_user)
           existing == {a \in AccountsView(session[w]) : a.email = ldap_user.email}
           id == FreshId(UsedAccountIds)
       IN IF linked # {}
          THEN \E account \in linked :
                 /\ proc' = [proc EXCEPT ![w] = Idle]
                 /\ session' = [session EXCEPT ![w] = EmptySession]
                 /\ Log(AuthCall(w, p, TRUE, "", account.id))
          ELSE IF existing # {}
          THEN \E existing_account \in existing :
                 /\ session' = [session EXCEPT ![w] =
                        SetUserAttrs(@, ldap_user.id, LinkAccount(existing_account.id, now))]
                 /\ proc' = [proc EXCEPT ![w] =
                        [@ EXCEPT !.pc = "auth_commit", !.account_id = existing_account.id]]
                 /\ UNCHANGED <<last, prev>>
          ELSE /\ session' = [session EXCEPT ![w] =
                      [@ EXCEPT !.new_accounts = @ \cup {NewAccount(id, ldap_user)}]]
               /\ proc' = [proc EXCEPT ![w] = [@ EXCEPT !.pc = "auth_link", !.account_id = id]]
               /\ UNCHANGED <<last, prev>>

\* slip: the new account is committed where it should only be flushed
AuthLinkAfterCommit(w) ==
    /\ proc[w].pc = "auth_link"
    /\ Commit(session[w])
    /\ session' = [session EXCEPT ![w] =
           [SetUserAttrs(EmptySession, proc[w].user_id, LinkAccount(proc[w].account_id, now))
               EXCEPT !.new_joins = {NewTenantJoin(proc[w].tenant, proc[w].account_id)}]]
    /\ proc' = [proc EXCEPT ![w] = [@ EXCEPT !.pc = "auth_commit"]]
    /\ UNCHANGED <<now, last, prev>>

\* lines 272-284: the flush gave the account its id; link the mirrored user
\* and add the membership, all still uncommitted
AuthLink(w) ==
    /\ proc[w].pc = "auth_link"
    /\ NoCommit
    /\ session' = [session EXCEPT ![w] =
           [SetUserAttrs(@, proc[w].user_id, LinkAccount(proc[w].account_id, now))
               EXCEPT !.new_joins = @ \cup {NewTenantJoin(proc[w].tenant, proc[w].account_id)}]]
    /\ proc' = [proc EXCEPT ![w] = [@ EXCEPT !.pc = "auth_commit"]]
    /\ UNCHANGED <<now, last, prev>>

\* the database rejects the flush of line 272 or the commit of line 261 or
\* 286: the exception leaves the request, whose session is dropped
AuthFail(w) ==
    /\ proc[w].pc \in {"auth_link", "auth_commit"}
    /\ NoCommit
    /\ session' = [session EXCEPT ![w] = EmptySession]
    /\ proc' = [proc EXCEPT ![w] = Idle]
    /\ Log([AuthCall(w, proc[w], FALSE, "DBAPIError", NoId) EXCEPT !.phase = proc[w].pc])
    /\ UNCHANGED now

\* lines 261-262 and 286-287: commit and return the account
AuthCommit(w) ==
    /\ proc[w].pc = "auth_commit"
    /\ Commit(session[w])
    /\ session' = [session EXCEPT ![w] = EmptySession]
    /\ proc' = [proc EXCEPT ![w] = Idle]
    /\ Log(AuthCall(w, proc[w], TRUE, "", proc[w].account_id))
    /\ UNCHANGED now

(***************************************************************************)
(* The account subsystem, which owns the accounts table, deletes an        *)
(* Account that a mirrored user is linked to.  ldap_users.account_id has   *)
(* no foreign key, so the row keeps the id of the deleted Account.         *)
(***************************************************************************)
DeleteAccount(w, account_id, horizon) ==
    /\ proc[w].pc = "idle"
    /\ now <= horizon
    /\ now' = now + 1
    /\ \E r \in ldap_users : r.account_id = account_id
    /\ \E a \in accounts :
          /\ a.id = account_id
          /\ accounts' = accounts \ {a}
    /\ UNCHANGED <<ldap_configs, ldap_users, joins, session, proc>>
    /\ Log([NoCall EXCEPT !.op = "delete_account", !.worker = w, !.ok = TRUE,
                          !.account_id = account_id,
                          !.before = Snapshot, !.after = SnapshotAfter])

AuthStep(w) == AuthResolve(w) \/ AuthLink(w) \/ AuthFail(w) \/ AuthCommit(w)

(***************************************************************************)
(* Specifications                                                          *)
(***************************************************************************)
SearchErrors == {"LdapConnectionError", "LdapServiceError"}

\* the steps of a call of sync_ldap_users
SyncStep(w, dirs) ==
    \/ SyncGetConfig(w)
    \/ SyncConnect(w)
    \/ \E entries \in dirs : SyncSearch(w, entries)
    \/ \E phase \in SearchPhases : SyncSearchFail(w, phase)
    \/ SyncRecord(w)
    \/ SyncDisable(w)
    \/ SyncLoopFail(w)
    \/ SyncCommit(w)

UserIds == 1..(Cardinality(Tenants) * 2)

\* on-demand syncs and the admin toggle, one worker
Next ==
    \/ \E t \in Tenants : StartSingleTask("w1", t, MaxOps)
    \/ SyncStep("w1", Directories)
    \/ \E t \in Tenants, id \in UserIds, enabled \in BOOLEAN :
           UpdateLdapUserStatus("w1", t, id, enabled, MaxOps)

Spec == Init /\ [][Next]_vars

\* syncs, logins and the admin toggle, one worker
DirectoriesAuth == { <<>>, <<E1>>, <<E1, E2>>, <<E1b>> }

NextAuth ==
    \/ \E t \in Tenants : StartSingleTask("w1", t, MaxOpsAuth)
    \/ SyncStep("w1", DirectoriesAuth)
    \/ \E t \in Tenants, email \in Emails, password \in Passwords :
           Authenticate("w1", t, email, password, MaxOpsAuth)
    \/ AuthStep("w1")
    \/ \E t \in Tenants, id \in UserIds, enabled \in BOOLEAN :
           UpdateLdapUserStatus("w1", t, id, enabled, MaxOpsAuth)

SpecAuth == Init /\ [][NextAuth]_vars

\* syncs and logins of one tenant while linked Accounts are deleted
DirectoriesHeal == { <<E1>>, <<E1b>>, <<E2>> }

AccountIds == 1..3

NextHeal ==
    \/ StartSingleTask("w1", "A", MaxOpsHeal)
    \/ SyncStep("w1", DirectoriesHeal)
    \/ \E email \in Emails : Authenticate("w1", "A", email, "good", MaxOpsHeal)
    \/ AuthStep("w1")
    \/ \E id \in AccountIds : DeleteAccount("w1", id, MaxOpsHeal)

SpecHeal == Init /\ [][NextHeal]_vars

\* the administrator creates, enables and disables configs between syncs
\* and logins, one worker
ConfigDatas ==
    { [enabled |-> TRUE, server_url |-> "ldap://x"],
      [enabled |-> FALSE, server_url |-> "ldap://x"],
      [enabled |-> FALSE],
      [tenant_id |-> "B"],
      [id |-> 2],
      [realm |-> "x"] }

DirectoriesConfig == { <<>>, <<E1>> }

NextConfig ==
    \/ \E t \in Tenants, config_data \in ConfigDatas :
           CreateOrUpdateLdapConfig("w1", t, config_data, MaxOpsConfig)
    \/ \E t \in Tenants : StartSingleTask("w1", t, MaxOpsConfig)
    \/ SyncStep("w1", DirectoriesConfig)
    \/ \E t \in Tenants, password \in Passwords :
           Authenticate("w1", t, "a@x", password, MaxOpsConfig)
    \/ AuthStep("w1")

SpecConfig == InitNoConfig /\ [][NextConfig]_vars

\* the scheduled bulk task after on-demand syncs, one worker
DirectoriesBulk == { <<>>, <<E1>>, <<E1, E2>>, <<E1, ELong>> }

NextBulk ==
    \/ \E t \in Tenants : StartSingleTask("w1", t, MaxOpsBulk)
    \/ StartBulkTask("w1", MaxOpsBulk)
    \/ TaskLoop("w1")
    \/ SyncStep("w1", DirectoriesBulk)
    \/ SyncFlushFail("w1")

SpecBulk == Init /\ [][NextBulk]_vars

\* the scheduled bulk task on one worker, on-demand syncs on the other
NextConc ==
    \/ StartBulkTask("w1", MaxOpsConc)
    \/ TaskLoop("w1")
    \/ StartSingleTask("w2", "A", MaxOpsConc)
    \/ \E w \in Workers : SyncStep(w, DirectoriesConc) \/ SyncFlushFail(w)

SpecConc == Init /\ [][NextConc]_vars

\* on-demand syncs of tenant A on one worker and of tenant B on the other
NextCross ==
    \/ StartSingleTask("w1", "A", MaxOpsCross)
    \/ StartSingleTask("w2", "B", MaxOpsCross)
    \/ \E w \in Workers : SyncStep(w, DirectoriesConc)

SpecCross == Init /\ [][NextCross]_vars

\* logins of the same email on two workers, after on-demand syncs
DirectoriesLogin == { <<>>, <<E1>> }

NextLogin ==
    \/ \E t \in Tenants : StartSingleTask("w1", t, MaxOpsLogin)
    \/ SyncStep("w1", DirectoriesLogin)
    \/ \E w \in Workers, t \in Tenants : Authenticate(w, t, "a@x", "good", MaxOpsLogin)
    \/ \E w \in Workers : AuthStep(w)

SpecLogin == Init /\ [][NextLogin]_vars

(***************************************************************************)
(* Properties                                                              *)
(***************************************************************************)
TenantRows(users, tenant_id) == {r \in users : r.tenant_id = tenant_id}

TenantConfigs(configs, tenant_id) == {c \in configs : c.tenant_id = tenant_id}

\* a row without its timestamps
Content(r) ==
    [id |-> r.id, tenant_id |-> r.tenant_id, account_id |-> r.account_id, ldap_uid |-> r.ldap_uid,
     email |-> r.email, name |-> r.name, ldap_dn |-> r.ldap_dn, enabled |-> r.enabled]

LastSyncOk == last.op = "sync" /\ last.ok

\* the uids of the valid records of the last sync's fetch
LastUids == Uids(search_ldap_users(last.fetch))

\* a successful sync directly after a successful sync of the same tenant with the same fetch
SyncRepeated ==
    /\ LastSyncOk
    /\ prev.op = "sync" /\ prev.ok
    /\ prev.tenant = last.tenant /\ prev.fetch = last.fetch
    /\ prev.after = last.before

\* C1: a second successful sync of a tenant with the same fetched list, with
\* nothing in between, returns created = 0, disabled = 0 and updated = total,
\* and leaves the rows and their uid, email, name, dn, enabled and account_id
\* as the first run left them.
C1_Idempotence ==
    SyncRepeated =>
        /\ last.stats.created = 0
        /\ last.stats.disabled = 0
        /\ last.stats.updated = last.stats.total
        /\ last.stats.total = Len(search_ldap_users(last.fetch))
        /\ {Content(r) : r \in last.after.users} = {Content(r) : r \in prev.after.users}

C1_Witness ==
    /\ SyncRepeated
    /\ last.stats.total > 0
    /\ \E r \in TenantRows(last.after.users, last.tenant) : ~r.enabled

\* C2: a sync whose directory fetch fails (connection or search) raises and
\* leaves every row and the config of the tenant, last_sync_at included, as
\* they were when the call began.
C2_AtomicFetchFailure ==
    (last.op = "sync" /\ last.phase \in SearchPhases) =>
        /\ ~last.ok
        /\ last.error \in SearchErrors
        /\ TenantRows(last.after.users, last.tenant) = TenantRows(last.before.users, last.tenant)
        /\ TenantConfigs(last.after.configs, last.tenant) = TenantConfigs(last.before.configs, last.tenant)
        /\ last.after = last.before

C2_Witness ==
    /\ last.op = "sync" /\ last.phase = "connect"
    /\ TenantRows(last.before.users, last.tenant) # {}
    /\ last.task = "bulk"
    /\ \E f \in proc[last.worker].failed : f.phase = "loop"

\* the durable rows and config of one tenant
TenantState(snapshot, tenant_id) ==
    [users |-> TenantRows(snapshot.users, tenant_id),
     configs |-> TenantConfigs(snapshot.configs, tenant_id)]

\* C3: when a tenant's sync failed in one of its loops, after the fetch and
\* before its commit, none of that run's changes to the tenant's rows or
\* config becomes durable, also when the bulk task goes on to commit the
\* next tenant's sync on the same session.
C3_AllOrNothing ==
    \A w \in Workers :
        proc[w].task = "bulk" =>
            \A f \in proc[w].failed :
                f.phase = "loop" =>
                    TenantState(Snapshot, f.tenant) = TenantState(proc[w].task_before, f.tenant)

\* a sync_ldap_users call of worker w for this tenant is in flight
InFlight(w, tenant_id) ==
    proc[w].pc \in {"sync_start", "search", "searching", "sync_loop"} /\ proc[w].tenant = tenant_id

\* C4: at most one execution of sync_ldap_users is in flight per tenant, in
\* every interleaving of the bulk task and on-demand syncs.
C4_OneInFlightPerTenant ==
    \A t \in Tenants : Cardinality({w \in Workers : InFlight(w, t)}) <= 1

Keys(users) == {<<r.tenant_id, r.ldap_uid>> : r \in users}

\* C5: no step of a sync (successful or failed), a login or the admin toggle
\* removes a (tenant_id, ldap_uid) pair or a row id from the mirror, so a
\* tenant's row count never decreases.
C5_NoDeletion ==
    [][ /\ Keys(ldap_users) \subseteq Keys(ldap_users')
        /\ {r.id : r \in ldap_users} \subseteq {r.id : r \in ldap_users'}
        /\ \A t \in Tenants :
              Cardinality(TenantRows(ldap_users, t)) <= Cardinality(TenantRows(ldap_users', t)) ]_vars

C5_Witness ==
    /\ LastSyncOk
    /\ last.stats.disabled > 0
    /\ prev.op = "auth" /\ prev.ok
    /\ Cardinality(TenantRows(ldap_users, last.tenant)) = 2

\* the rows of the last sync's tenant that were there before it and whose uid was not fetched
LastAbsent == {r \in TenantRows(last.before.users, last.tenant) : r.ldap_uid \notin LastUids}

\* C6: after a successful sync, every row that was enabled before and whose
\* uid was not fetched still exists, is disabled, keeps account_id, uid,
\* email, name and dn, and is counted in disabled; a row that was already
\* disabled and is still absent is untouched and not counted.
C6_DisableNotDelete ==
    LastSyncOk =>
        /\ \A r \in LastAbsent :
              \E r2 \in last.after.users :
                  /\ r2.id = r.id
                  /\ ~r2.enabled
                  /\ Content(r2) = [Content(r) EXCEPT !.enabled = FALSE]
                  /\ ~r.enabled => r2 = r
        /\ last.stats.disabled = Cardinality({r \in LastAbsent : r.enabled})

C6_Witness ==
    /\ LastSyncOk
    /\ last.stats.disabled > 0
    /\ \E r \in LastAbsent : r.enabled /\ r.account_id # NoId

\* the rows of the last sync's tenant that were disabled before it and whose uid was fetched
LastReappeared ==
    {r \in TenantRows(last.before.users, last.tenant) : ~r.enabled /\ r.ldap_uid \in LastUids}

\* C7: after a successful sync, a row that was disabled before (by a sync or
\* by the admin toggle) and whose uid was fetched is the same row, enabled;
\* it is counted in updated and not in created, and it is the only row of
\* its uid in the tenant.
C7_ReEnable ==
    LastSyncOk =>
        /\ \A r \in LastReappeared :
              /\ \E r2 \in last.after.users : r2.id = r.id /\ r2.enabled /\ r2.ldap_uid = r.ldap_uid
              /\ Cardinality({r2 \in TenantRows(last.after.users, last.tenant) :
                                 r2.ldap_uid = r.ldap_uid}) = 1
        /\ last.stats.created =
              Cardinality(LastUids \ {r.ldap_uid : r \in TenantRows(last.before.users, last.tenant)})
        /\ last.stats.updated = last.stats.total - last.stats.created
        /\ last.stats.updated >= Cardinality(LastReappeared)

C7_Witness ==
    /\ LastSyncOk
    /\ LastReappeared # {}
    /\ prev.op = "sync" /\ prev.ok /\ prev.stats.disabled > 0

C7_WitnessToggle ==
    /\ LastSyncOk
    /\ LastReappeared # {}
    /\ prev.op = "status" /\ prev.ok /\ ~prev.enabled

\* a row without its id
Fields(r) == [f \in DOMAIN r \ {"id"} |-> r[f]]

\* the tenants with an enabled config
EnabledTenants(configs) == {c.tenant_id : c \in {c \in configs : c.enabled}}

\* the fetched records of the last sync that the database would reject
LastUnfit ==
    {i \in 1..Len(search_ldap_users(last.fetch)) :
        ~FitsColumns(NewLdapUser(NoId, last.tenant, search_ldap_users(last.fetch)[i], now))}

\* C8: in the bulk task a failed sync does not end the loop and adds exactly
\* one to the error count, every enabled tenant is synced or counted as
\* failed, and a tenant's sync ends as a sync of that tenant alone would
\* have, whatever failed before it in the same task and in whichever order
\* the tenants are taken: the database rejects it only for a record of its
\* own fetch, and when it succeeds it leaves the tenant's rows and returns
\* the stats of a sync alone.
C8_BulkIsolation ==
    /\ (last.op = "sync" /\ last.task = "bulk" /\ last.phase = "flush") => LastUnfit # {}
    /\ \A w \in Workers :
          proc[w].task = "bulk" => proc[w].total_errors = Cardinality(proc[w].failed)
    /\ (last.op = "sync" /\ last.task = "bulk") => proc[last.worker].task = "bulk"
    /\ last.op = "bulk" =>
          /\ last.ok
          /\ last.total_errors = Cardinality(last.failed)
          /\ {f.tenant : f \in last.failed} \cup last.synced = EnabledTenants(last.before.configs)
          /\ {f.tenant : f \in last.failed} \cap last.synced = {}
    /\ (LastSyncOk /\ last.task = "bulk") =>
          LET alone == SyncAlone(last.before.users, last.tenant, last.fetch, now)
          IN /\ last.stats = alone.stats
             /\ {Fields(r) : r \in TenantRows(last.after.users, last.tenant)}
                   = {Fields(r) : r \in TenantRows(alone.rows, last.tenant)}
             /\ \A r \in TenantRows(last.before.users, last.tenant) :
                   \E r2 \in last.after.users : r2.id = r.id /\ r2.ldap_uid = r.ldap_uid

\* the mirrored user of the last login, before and after it
LastUserBefore == CHOOSE r \in last.before.users : r.id = last.user_id

LastUserAfter == CHOOSE r \in last.after.users : r.id = last.user_id

LastAuthOk == last.op = "auth" /\ last.ok

\* the accounts with the mirrored user's email when the last login began
LastSameEmail == {a \in last.before.accounts : a.email = LastUserBefore.email}

\* C9: after a successful login of a mirrored user without account_id whose
\* email an Account already has, the user's account_id is that Account's id,
\* that Account is returned, and no Account was added.
C9_IdentityLinking ==
    (LastAuthOk /\ LastUserBefore.account_id = NoId /\ LastSameEmail # {}) =>
        /\ LastUserAfter.account_id \in {a.id : a \in LastSameEmail}
        /\ last.account_id = LastUserAfter.account_id
        /\ last.after.accounts = last.before.accounts

C9_Witness ==
    /\ LastAuthOk
    /\ LastUserBefore.account_id = NoId
    /\ LastSameEmail # {}
    /\ LastUserAfter.account_id # NoId

\* C10: after a successful login of a mirrored user without account_id whose
\* email no Account has, exactly one Account with that email exists, it is
\* new, active and named like the mirrored user, it is a member of the
\* tenant with the role normal, and the user's account_id is its id; a
\* successful login repeated for the same tenant and email adds no Account
\* and no membership.
C10_Provisioning ==
    /\ (LastAuthOk /\ LastUserBefore.account_id = NoId /\ LastSameEmail = {}) =>
          /\ Cardinality({a \in last.after.accounts : a.email = LastUserBefore.email}) = 1
          /\ \A a \in last.after.accounts :
                a.email = LastUserBefore.email =>
                    /\ a.id \notin {b.id : b \in last.before.accounts}
                    /\ a.status = "active"
                    /\ a.name = LastUserBefore.name
                    /\ [tenant_id |-> last.tenant, account_id |-> a.id, role |-> "normal"]
                          \in last.after.joins
                    /\ Cardinality({j \in last.after.joins :
                                       j.tenant_id = last.tenant /\ j.account_id = a.id}) = 1
                    /\ LastUserAfter.account_id = a.id
                    /\ last.account_id = a.id
          /\ Cardinality(last.after.accounts) = Cardinality(last.before.accounts) + 1
    /\ (LastAuthOk /\ prev.op = "auth" /\ prev.ok
            /\ prev.tenant = last.tenant /\ prev.email = last.email) =>
          /\ last.after.accounts = last.before.accounts
          /\ last.after.joins = last.before.joins
          /\ last.account_id = prev.account_id

C10_Witness ==
    /\ LastAuthOk /\ prev.op = "auth" /\ prev.ok
    /\ prev.tenant = last.tenant /\ prev.email = last.email
    /\ Cardinality(prev.after.accounts) = Cardinality(prev.before.accounts) + 1
    /\ last.after.joins # {}

\* the mirrored users of the last login's tenant that had its email when it began
LastUsersByEmail ==
    {r \in last.before.users : r.tenant_id = last.tenant /\ r.email = last.email}

\* C11: in a tenant with an enabled config, a login with the email of a
\* mirrored user that is disabled (no enabled row has that email) fails with
\* LdapUserNotFoundError whatever the password, without a bind to the
\* directory, and changes no row, Account or membership.
C11_DisabledRejected ==
    (/\ last.op = "auth"
     /\ \E c \in TenantConfigs(last.before.configs, last.tenant) : c.enabled
     /\ LastUsersByEmail # {}
     /\ \A r \in LastUsersByEmail : ~r.enabled) =>
        /\ ~last.ok
        /\ last.error = "LdapUserNotFoundError"
        /\ last.bind = ""
        /\ last.account_id = NoId
        /\ last.after = last.before

C11_Witness ==
    /\ last.op = "auth" /\ last.password = "good"
    /\ \E c \in TenantConfigs(last.before.configs, last.tenant) : c.enabled
    /\ LastUsersByEmail # {}
    /\ \A r \in LastUsersByEmail : ~r.enabled
    /\ last.error = "LdapUserNotFoundError"

\* the mirrored user of the last login was linked to an Account that did
\* not exist when the login began
LastDangling ==
    /\ last.op = "auth" /\ last.user_id # NoId
    /\ LastUserBefore.account_id # NoId
    /\ LastUserBefore.account_id \notin {a.id : a \in last.before.accounts}

\* C12: a login of a mirrored user whose account_id refers to a deleted
\* Account, once the bind succeeded, fails only if the database fails; when
\* it returns, it returns an Account that exists and that the user's
\* account_id now refers to: the Account with the user's email when there
\* is one (none is added), a newly provisioned one otherwise.
C12_DanglingLinkHeals ==
    LastDangling =>
        /\ ~last.ok => last.error \in {"LdapAuthError", "DBAPIError"}
        /\ last.ok =>
              /\ last.account_id # NoId
              /\ last.account_id \in {a.id : a \in last.after.accounts}
              /\ LastUserAfter.account_id = last.account_id
              /\ LastSameEmail # {} =>
                    /\ last.account_id \in {a.id : a \in LastSameEmail}
                    /\ last.after.accounts = last.before.accounts
              /\ LastSameEmail = {} =>
                    /\ last.account_id \notin {a.id : a \in last.before.accounts}
                    /\ last.account_id # LastUserBefore.account_id
                    /\ Cardinality(last.after.accounts) = Cardinality(last.before.accounts) + 1

C12_Witness ==
    /\ LastDangling /\ last.ok
    /\ LastSameEmail # {}
    /\ LastUserAfter.account_id \in {a.id : a \in last.after.accounts}

C12_WitnessProvisioned ==
    /\ LastDangling /\ last.ok
    /\ LastSameEmail = {}
    /\ prev.op = "delete_account"

\* the durable Accounts that the bridge provisioned
BridgeAccounts == accounts \ {InitAccount}

\* C13: in every durable state during and after logins, failed ones
\* included, an Account provisioned by the bridge exists only together with
\* the link of a mirrored user to it and its membership, a link or a
\* membership exists only together with its Account, and a login that fails
\* leaves the four tables as they were.
C13_AuthOneUnit ==
    /\ \A a \in BridgeAccounts :
          /\ \E r \in ldap_users : r.account_id = a.id
          /\ \E j \in joins : j.account_id = a.id
    /\ \A r \in ldap_users :
          r.account_id # NoId => \E a \in accounts : a.id = r.account_id
    /\ \A j \in joins :
          /\ \E a \in BridgeAccounts : a.id = j.account_id
          /\ \E r \in ldap_users : r.account_id = j.account_id /\ r.tenant_id = j.tenant_id
    /\ (last.op = "auth" /\ ~last.ok) => last.after = last.before

C13_Witness ==
    /\ last.op = "auth" /\ ~last.ok
    /\ last.error = "DBAPIError" /\ last.phase = "auth_commit"
    /\ LastUserBefore.account_id = NoId
    /\ LastSameEmail = {}
    /\ last.after.accounts = {InitAccount}

\* the positions of the last sync's fetch with a uid and an email
LastValid == {i \in 1..Len(last.fetch) : last.fetch[i].uid # "" /\ last.fetch[i].email # ""}

\* the uids that the last sync's fetch has only in entries without email
LastInvalidUids ==
    {last.fetch[i].uid : i \in (1..Len(last.fetch)) \ LastValid}
        \ {last.fetch[i].uid : i \in LastValid}

\* C14: a fetch with entries that lack uid or email does not fail the sync;
\* total counts only the entries that have both, no row of the tenant has
\* an empty uid or email, no row is created for a dropped entry and a row
\* that has its uid takes none of its data (it is handled as absent), and
\* every valid entry of the same fetch has its enabled row synced at this
\* run.
C14_InvalidSkipped ==
    LastSyncOk =>
        /\ last.stats.total = Cardinality(LastValid)
        /\ \A r \in TenantRows(last.after.users, last.tenant) : r.ldap_uid # "" /\ r.email # ""
        /\ \A r2 \in TenantRows(last.after.users, last.tenant) :
              r2.ldap_uid \in LastInvalidUids =>
                  \E r \in last.before.users :
                      /\ Content(r2) = [Content(r) EXCEPT !.enabled = FALSE]
                      /\ r2.last_sync_at = r.last_sync_at
        /\ \A i \in LastValid :
              \E r \in TenantRows(last.after.users, last.tenant) :
                  /\ r.ldap_uid = last.fetch[i].uid /\ r.enabled
                  /\ r.last_sync_at \notin {b.last_sync_at : b \in last.before.users}

C14_Witness ==
    /\ LastSyncOk
    /\ last.fetch = <<ENoMail, E1>>
    /\ last.stats.total = 1
    /\ \E r \in TenantRows(last.before.users, last.tenant) : r.ldap_uid = ENoMail.uid /\ r.enabled

\* the tenant of the last call had no enabled config when the call began
LastNoConfig ==
    \A c \in TenantConfigs(last.before.configs, last.tenant) : ~c.enabled

\* C15: when the tenant has no config or a disabled one, a sync and a login
\* both fail with the config-not-found error (LdapServiceError) before
\* any connection or bind to the directory, and leave all rows, configs,
\* Accounts and memberships as they were.
C15_NoConfigNoOp ==
    (last.op \in {"sync", "auth"} /\ LastNoConfig) =>
        /\ ~last.ok
        /\ last.error = "LdapServiceError"
        /\ last.op = "sync" => (last.phase = "config" /\ last.opened = 0 /\ last.fetch = <<>>)
        /\ last.op = "auth" => (last.bind = "" /\ last.account_id = NoId)
        /\ last.after = last.before

C15_Witness ==
    /\ last.op = "auth" /\ LastNoConfig /\ last.password = "good"
    /\ TenantConfigs(last.before.configs, last.tenant) # {}
    /\ \E r \in TenantRows(last.before.users, last.tenant) : r.email = last.email /\ r.enabled

C15_WitnessSync ==
    /\ last.op = "sync" /\ LastNoConfig
    /\ TenantConfigs(last.before.configs, last.tenant) # {}
    /\ TenantRows(last.before.users, last.tenant) # {}

C15_WitnessAbsent ==
    /\ last.op = "sync" /\ last.phase = "config"
    /\ TenantConfigs(last.before.configs, last.tenant) = {}

\* the last entry of the last sync's fetch that is valid and has this uid
LastRecord(uid) ==
    last.fetch[CHOOSE i \in LastValid :
                  /\ last.fetch[i].uid = uid
                  /\ \A j \in LastValid : last.fetch[j].uid = uid => j <= i]

\* C16: the mirror never holds two rows with the same tenant and uid; a
\* successful sync keeps the row of every fetched uid that had one, with
\* the same id, and overwrites its email, name and dn with the fetched
\* ones, adds exactly one row per fetched uid that had none, also when the
\* fetch repeats a uid, and leaves the rows of the other tenants, the same
\* uids included, as they were.
C16_UidIdentity ==
    /\ UniqueTenantLdapUser(ldap_users)
    /\ LastSyncOk =>
          /\ \A r \in TenantRows(last.before.users, last.tenant) :
                r.ldap_uid \in LastUids =>
                    \E r2 \in last.after.users : r2.id = r.id /\ r2.tenant_id = r.tenant_id
          /\ \A r2 \in TenantRows(last.after.users, last.tenant) :
                r2.ldap_uid \in LastUids =>
                    /\ r2.email = LastRecord(r2.ldap_uid).email
                    /\ r2.name = LastRecord(r2.ldap_uid).name
                    /\ r2.ldap_dn = LastRecord(r2.ldap_uid).dn
          /\ Cardinality(TenantRows(last.after.users, last.tenant))
                = Cardinality(TenantRows(last.before.users, last.tenant))
                  + Cardinality(LastUids \ {r.ldap_uid : r \in TenantRows(last.before.users, last.tenant)})
          /\ \A t \in Tenants \ {last.tenant} :
                TenantRows(last.after.users, t) = TenantRows(last.before.users, t)

C16_Witness ==
    /\ LastSyncOk
    /\ last.fetch = <<E1, E1b>>
    /\ \E r \in TenantRows(last.before.users, last.tenant) :
          r.ldap_uid = E1.uid /\ r.email = E1.email
    /\ \E r \in last.after.users :
          r.tenant_id # last.tenant /\ r.ldap_uid = E1.uid /\ r.email = E1.email

C16_WitnessTwice ==
    /\ LastSyncOk
    /\ last.fetch = <<E1, E1b>>
    /\ TenantRows(last.before.users, last.tenant) = {}
    /\ last.stats.created = 1 /\ last.stats.updated = 1

\* a row without its id and its timestamps
Identity(r) == [f \in DOMAIN Content(r) \ {"id"} |-> Content(r)[f]]

\* the tenants whose durable rows or config a step changes
Touched ==
    {t \in Tenants : TenantState(Snapshot, t)
                        # [users |-> TenantRows(ldap_users', t),
                           configs |-> TenantConfigs(ldap_configs', t)]}

\* the sync that began with the last sync's durable state, run alone
LastAlone ==
    SyncAlone(TenantRows(last.before.users, last.tenant), last.tenant, last.fetch, now)

\* C17: with syncs of tenant A and of tenant B interleaved on two workers,
\* every successful sync returns the stats and leaves its tenant the rows
\* of that sync run with nothing else going on, sets the sync time of its
\* tenant's config, and a step changes durable rows or config only of the
\* tenant whose sync commits in it.
C17_CrossTenant ==
    /\ [](LastSyncOk =>
            /\ last.stats = LastAlone.stats
            /\ {Identity(r) : r \in TenantRows(last.after.users, last.tenant)}
                  = {Identity(r) : r \in TenantRows(LastAlone.rows, last.tenant)}
            /\ \A r \in TenantRows(last.before.users, last.tenant) :
                  \E r2 \in last.after.users : r2.id = r.id /\ r2.ldap_uid = r.ldap_uid
            /\ \A c \in TenantConfigs(last.after.configs, last.tenant) :
                  c.last_sync_at # NoId /\ c.last_sync_at = c.updated_at)
    /\ [][\A t \in Touched :
              \E w \in Workers :
                  /\ proc[w].tenant = t /\ proc[w].pc = "sync_loop" /\ proc'[w].pc = "idle"
                  /\ Touched = {t}]_vars

\* a sync that updated and disabled rows committed while the other tenant's
\* sync had rows pending
C17_Witness ==
    /\ LastSyncOk
    /\ last.stats.updated > 0 /\ last.stats.disabled > 0
    /\ \E w \in Workers :
          /\ proc[w].pc = "sync_loop" /\ proc[w].tenant # last.tenant
          /\ session[w].new_users # {}

\* a sync committed after the other tenant's sync had committed under it
C17_WitnessOvertaken ==
    /\ LastSyncOk
    /\ last.stats.created > 0
    /\ \E t \in Tenants \ {last.tenant} :
          TenantRows(last.after.users, t) # TenantRows(last.before.users, t)

\* C18: a directory connection is open only while search_ldap_users is
\* between connecting and returning or raising; whenever sync_ldap_users
\* has returned or raised, after a normal fetch, a failed search or a
\* failure while reading the entries, the connection it opened is closed,
\* and the bulk task carries no open connection to the next tenant.
C18_ConnectionReleased ==
    /\ \A w \in Workers :
          /\ proc[w].conn \in {0, 1}
          /\ proc[w].conn = 1 <=> proc[w].pc = "searching"
    /\ last.op = "sync" =>
          /\ last.conn = 0
          /\ last.opened \in {0, 1}
          /\ last.phase \in {"config", "connect"} => last.opened = 0
          /\ (last.ok \/ last.phase \in {"search", "entries", "loop"}) => last.opened = 1

C18_Witness ==
    /\ last.op = "sync" /\ ~last.ok
    /\ last.phase = "entries"
    /\ last.opened = 1 /\ last.conn = 0
    /\ last.task = "bulk"
    /\ \E w \in Workers : proc[w].pc = "task_loop" /\ proc[w].queue # <<>> /\ proc[w].conn = 0

C18_WitnessReturn ==
    /\ LastSyncOk
    /\ last.opened = 1 /\ last.conn = 0

\* the failure outcome of sync_ldap_users that a phase belongs to
Outcome(phase) == IF phase = "entries" THEN "search" ELSE phase

FetchOutcomes == {"config", "connect", "search"}

\* C19: a sync that fails to connect raises LdapConnectionError, one whose
\* search fails raises the error of a failed search, none of the failures
\* is turned into a return, and two failed syncs with different outcomes
\* among config not found, connection error and search error raise
\* different exception classes.
C19_ErrorKinds ==
    /\ (last.op = "sync" /\ Outcome(last.phase) \in FetchOutcomes) =>
          /\ ~last.ok
          /\ last.error # ""
          /\ last.phase = "connect" => last.error = "LdapConnectionError"
    /\ (/\ last.op = "sync" /\ prev.op = "sync"
        /\ Outcome(last.phase) \in FetchOutcomes /\ Outcome(prev.phase) \in FetchOutcomes
        /\ Outcome(last.phase) # Outcome(prev.phase)) =>
          last.error # prev.error

\* C20: directly after a successful sync of a tenant, a row of that tenant
\* is enabled exactly if its uid is among the uids of the valid fetched
\* records, whatever its enabled flag was before the run and whoever set
\* it, the sync or the admin toggle.
C20_MirrorMatchesFetch ==
    LastSyncOk =>
        \A r \in TenantRows(last.after.users, last.tenant) :
            r.enabled <=> r.ldap_uid \in {last.fetch[i].uid : i \in LastValid}

\* the toggle disabled a row that the next sync fetched, and the same sync
\* disabled another row
C20_Witness ==
    /\ LastSyncOk
    /\ prev.op = "status" /\ prev.ok /\ ~prev.enabled /\ prev.tenant = last.tenant
    /\ \E r \in TenantRows(last.before.users, last.tenant) : r.id = prev.user_id /\ ~r.enabled
    /\ \E r \in TenantRows(last.after.users, last.tenant) : r.id = prev.user_id /\ r.enabled
    /\ last.stats.disabled > 0

\* the toggle enabled a row that no sync fetches
C20_WitnessEnabledAbsent ==
    /\ LastSyncOk
    /\ prev.op = "status" /\ prev.ok /\ prev.enabled /\ prev.tenant = last.tenant
    /\ \E r \in LastAbsent : r.id = prev.user_id /\ r.enabled

\* C21: no step of a sync or of the admin toggle changes the account_id of
\* a mirror row, a row that a sync adds has none, and no step of a sync, a
\* toggle or a login takes a row's account_id from an Account id back to
\* null; only the commit of a login changes it.
C21_LinkNeverCleared ==
    /\ [][\A r \in ldap_users :
              \E r2 \in ldap_users' :
                  /\ r2.id = r.id
                  /\ r.account_id # NoId => r2.account_id # NoId
                  /\ (\A w \in Workers : proc[w].pc # "auth_commit") =>
                         r2.account_id = r.account_id]_vars
    /\ [][\A r2 \in ldap_users' :
              (r2.id \notin {r.id : r \in ldap_users}) => r2.account_id = NoId]_vars
    /\ []((last.op \in {"sync", "status"}) =>
              \A r \in last.before.users :
                  \E r2 \in last.after.users : r2.id = r.id /\ r2.account_id = r.account_id)

\* the toggle acted on a linked row right after the login that linked it
C21_Witness ==
    /\ last.op = "status" /\ last.ok
    /\ prev.op = "auth" /\ prev.ok /\ prev.user_id = last.user_id
    /\ \E r \in last.after.users : r.id = last.user_id /\ r.account_id # NoId

\* a sync updated a linked row
C21_WitnessSync ==
    /\ LastSyncOk /\ last.stats.updated > 0
    /\ \E r \in TenantRows(last.before.users, last.tenant) :
          r.account_id # NoId /\ r.ldap_uid \in LastUids

\* the rows that the last toggle named: this id in this tenant
LastToggled ==
    {r \in last.before.users : r.id = last.user_id /\ r.tenant_id = last.tenant}

\* C22: a toggle of a row id of the tenant sets that row's enabled flag to
\* the value given, changes nothing else of that row but updated_at and
\* nothing of any other row, config, Account or membership; a toggle of an
\* id that the tenant has no row for, an id of another tenant's row
\* included, fails with LdapUserNotFoundError and changes nothing.
C22_ToggleScoped ==
    last.op = "status" =>
        /\ LastToggled = {} =>
              /\ ~last.ok
              /\ last.error = "LdapUserNotFoundError"
              /\ last.after = last.before
        /\ LastToggled # {} =>
              /\ last.ok
              /\ \A r \in last.before.users \ LastToggled : r \in last.after.users
              /\ Cardinality(last.after.users) = Cardinality(last.before.users)
              /\ \A r \in LastToggled :
                    \E r2 \in last.after.users :
                        /\ Content(r2) = [Content(r) EXCEPT !.enabled = last.enabled]
                        /\ r2.last_sync_at = r.last_sync_at
              /\ last.after.configs = last.before.configs
              /\ last.after.accounts = last.before.accounts
              /\ last.after.joins = last.before.joins

\* the id named belongs to a row of another tenant
C22_Witness ==
    /\ last.op = "status" /\ ~last.ok
    /\ \E r \in last.before.users : r.id = last.user_id /\ r.tenant_id # last.tenant
    /\ TenantRows(last.before.users, last.tenant) # {}

\* the flag of one of two rows of the tenant was flipped
C22_WitnessFlipped ==
    /\ last.op = "status" /\ last.ok
    /\ \E r \in LastToggled : r.enabled # last.enabled
    /\ Cardinality(TenantRows(last.before.users, last.tenant)) = 2

\* the rows of the last sync's tenant that were enabled before it and are
\* disabled after it
LastTurnedOff ==
    {r \in TenantRows(last.before.users, last.tenant) :
        r.enabled /\ \E r2 \in last.after.users : r2.id = r.id /\ ~r2.enabled}

\* C23: a successful sync returns total = the number of valid fetched
\* records = created + updated, created = the number of distinct fetched
\* uids that had no row before = the growth of the tenant's row count, and
\* disabled = the number of rows that went from enabled to disabled.
C23_StatsAccounting ==
    LastSyncOk =>
        /\ last.stats.total = Cardinality(LastValid)
        /\ last.stats.total = last.stats.created + last.stats.updated
        /\ last.stats.created =
              Cardinality({last.fetch[i].uid : i \in LastValid}
                             \ {r.ldap_uid : r \in TenantRows(last.before.users, last.tenant)})
        /\ last.stats.created =
              Cardinality(TenantRows(last.after.users, last.tenant))
                 - Cardinality(TenantRows(last.before.users, last.tenant))
        /\ last.stats.disabled = Cardinality(LastTurnedOff)

\* a fetch that repeats a new uid, over a row that gets disabled
C23_Witness ==
    /\ LastSyncOk
    /\ last.fetch = <<E1, E1b>>
    /\ last.stats = [total |-> 2, created |-> 1, updated |-> 1, disabled |-> 1]

\* C24: when a login returns an Account, that Account has a membership in
\* the login's tenant when the call returns, whichever of the three paths
\* (already linked, linked by email, newly provisioned) resolved it.
C24_ReturnedAccountIsMember ==
    LastAuthOk =>
        \E j \in last.after.joins :
            j.tenant_id = last.tenant /\ j.account_id = last.account_id

\* the accounts of a set with this email
WithEmail(accts, email) == {a \in accts : a.email = email}

\* C25: logins that pass the bind for an email no Account had, in any
\* interleaving, leave at most one Account with that email, and a login that
\* returned leaves its mirrored user linked to an existing Account.
C25_NoDuplicateAccount ==
    /\ \A email \in Emails :
           WithEmail({InitAccount}, email) = {} => Cardinality(WithEmail(accounts, email)) <= 1
    /\ LastAuthOk =>
           \E r \in last.after.users :
               /\ r.id = last.user_id
               /\ \E a \in last.after.accounts : a.id = r.account_id

\* C26: whatever keys config_data has, create_or_update_ldap_config(T,
\* config_data) leaves the configs of the other tenants as they were and adds
\* none for them, keeps the id and the tenant_id of T's config, keeps at most
\* one config per tenant, and leaves exactly one config for T when it returns.
C26_ConfigWritesInTenant ==
    last.op = "config" =>
        /\ \A c \in last.before.configs \cup last.after.configs :
               c.tenant_id # last.tenant => c \in last.before.configs \cap last.after.configs
        /\ \A c \in TenantConfigs(last.before.configs, last.tenant) :
               \E c2 \in last.after.configs : c2.id = c.id /\ c2.tenant_id = c.tenant_id
        /\ \A t \in Tenants : Cardinality(TenantConfigs(last.after.configs, t)) <= 1
        /\ last.ok => Cardinality(TenantConfigs(last.after.configs, last.tenant)) = 1

====
